---- MODULE Spec2Model ----
(***************************************************************************)
(* A model of the realtime TTS session client of src/qwen_tts_realtime.rs  *)
(* together with the callback of src/main.rs.                              *)
(*                                                                         *)
(* Two tasks exist: the caller (QwenTtsRealtime::new, then update_session, *)
(* append_text and finish) and the reader task that new() spawns.  They    *)
(* share the callback, which sits behind a tokio Mutex.  The server and    *)
(* the network are the environment: every read of the reader half yields   *)
(* a frame chosen from Frames, every write of the writer half succeeds or  *)
(* fails as the transport allows.                                          *)
(***************************************************************************)
EXTENDS Integers, Sequences, FiniteSets, TLC

\* Bounds of the model.
MaxFrames == 2      \* results the reader half yields in one behaviour
MaxCalls == 2       \* command calls the caller issues in one behaviour

NoValue == "<none>"
NotAString == "<not a string>"
NoDelta == <<NoValue>>

------------------------------------------------------------------------------
(* base64::engine::general_purpose::STANDARD.decode, as on_event uses it.    *)

B64Alphabet ==
    << "A","B","C","D","E","F","G","H","I","J","K","L","M","N","O","P",
       "Q","R","S","T","U","V","W","X","Y","Z","a","b","c","d","e","f",
       "g","h","i","j","k","l","m","n","o","p","q","r","s","t","u","v",
       "w","x","y","z","0","1","2","3","4","5","6","7","8","9","+","/" >>

IsB64Symbol(c) == \E i \in 1..64 : B64Alphabet[i] = c

B64Index(c) == (CHOOSE i \in 1..64 : B64Alphabet[i] = c) - 1

\* Number of trailing "=" of s.
RECURSIVE PadCount(_)
PadCount(s) ==
    IF Len(s) > 0 /\ s[Len(s)] = "="
    THEN 1 + PadCount(SubSeq(s, 1, Len(s) - 1))
    ELSE 0

\* The value of a group of 2..4 symbols read as a big-endian number of 6-bit digits.
RECURSIVE GroupValue(_)
GroupValue(g) ==
    IF Len(g) = 0 THEN 0
    ELSE GroupValue(SubSeq(g, 1, Len(g) - 1)) * 64 + B64Index(g[Len(g)])

Pow2(n) == IF n = 0 THEN 1 ELSE IF n = 2 THEN 4 ELSE IF n = 4 THEN 16 ELSE 0

\* The n most significant bytes of a 8n-bit value.
RECURSIVE BytesOf(_, _)
BytesOf(v, n) ==
    IF n = 0 THEN << >>
    ELSE Append(BytesOf(v \div 256, n - 1), v % 256)

\* One group of symbols: 4 symbols give 3 bytes, 3 give 2, 2 give 1.  The bits
\* of the last symbol that belong to no byte must be zero.
DecodeGroup(g) ==
    LET n     == Len(g)
        spare == (6 * n) % 8
        v     == GroupValue(g)
    IN  IF n < 2 \/ v % Pow2(spare) # 0
        THEN [ok |-> FALSE, bytes |-> << >>]
        ELSE [ok |-> TRUE, bytes |-> BytesOf(v \div Pow2(spare), (6 * n) \div 8)]

RECURSIVE DecodeSymbols(_)
DecodeSymbols(s) ==
    IF Len(s) = 0 THEN [ok |-> TRUE, bytes |-> << >>]
    ELSE IF Len(s) <= 4 THEN DecodeGroup(s)
    ELSE LET head == DecodeGroup(SubSeq(s, 1, 4))
             rest == DecodeSymbols(SubSeq(s, 5, Len(s)))
         IN  [ok |-> head.ok /\ rest.ok, bytes |-> head.bytes \o rest.bytes]

\* Padding is required and canonical: the input is a multiple of 4 characters,
\* at most two "=" and only at the end; every other character is of the alphabet.
Base64Decode(s) ==
    LET pad  == PadCount(s)
        data == SubSeq(s, 1, Len(s) - pad)
    IN  IF \/ Len(s) % 4 # 0
           \/ pad > 2
           \/ \E i \in 1..Len(data) : ~IsB64Symbol(data[i])
        THEN [ok |-> FALSE, bytes |-> << >>]
        ELSE DecodeSymbols(data)

------------------------------------------------------------------------------
(* Inbound frames.                                                           *)

\* A text frame's payload: whether it parses as JSON, its "type" member
\* (NoValue when absent, NotAString when not a JSON string) and its "delta"
\* member as a sequence of characters (NoDelta when absent).
Body(valid, type, delta) == [valid |-> valid, type |-> type, delta |-> delta]

NoBody == Body(FALSE, NoValue, NoDelta)

TextBodies ==
    { Body(TRUE, "session.created", NoDelta),
      Body(TRUE, "response.audio.delta", <<"A","A","A","=">>),
      Body(TRUE, "response.audio.delta", <<"B","B","B","=">>),
      Body(TRUE, "response.done", NoDelta),
      Body(TRUE, "session.finished", NoDelta),
      Body(TRUE, "error", NoDelta),
      Body(TRUE, NoValue, NoDelta),
      Body(FALSE, NoValue, NoDelta) }

\* What one poll of stream_reader.next() can yield: Some(Ok(msg)) with a text,
\* close or other message, Some(Err(e)), or None.
Frames ==
    { [kind |-> "text", body |-> b] : b \in TextBodies }
    \cup { [kind |-> k, body |-> NoBody] : k \in {"close", "binary", "error", "none"} }

------------------------------------------------------------------------------
(* The callback of src/main.rs.                                              *)

\* The event types on_event has a branch for.
KnownTypes ==
    {"session.created", "response.audio.delta", "response.done", "session.finished"}

\* MyCallback::on_event: what the call does with one text message.  ret is
\* "true" or "false" for the value returned and "panic" when an unwrap fails;
\* write is what the call appends to the audio file.
OnEvent(message) ==
    IF ~message.valid
    THEN [ret |-> "panic", write |-> << >>]
    ELSE IF message.type \in {NoValue, NotAString}
    THEN [ret |-> "false", write |-> << >>]
    ELSE CASE message.type = "session.created" ->
                [ret |-> "false", write |-> << >>]
           [] message.type = "response.audio.delta" ->
                IF message.delta = NoDelta
                THEN [ret |-> "false", write |-> << >>]
                ELSE LET audio_bytes == Base64Decode(message.delta)
                     IN  IF audio_bytes.ok
                         THEN [ret |-> "false", write |-> audio_bytes.bytes]
                         ELSE [ret |-> "panic", write |-> << >>]
           [] message.type = "response.done" ->
                [ret |-> "false", write |-> << >>]
           [] message.type = "session.finished" ->
                [ret |-> "true", write |-> << >>]
           [] OTHER ->
                [ret |-> "false", write |-> << >>]

------------------------------------------------------------------------------
(* State.                                                                    *)

VARIABLES
    hasCallback,   \* the callback argument of new() is Some
    callerPc,      \* where the caller is: "connect", "setup", "in_open", "ready", "failed",
                   \* and for main "polling", "exited"
    todo,          \* the steps of new() still to run between the handshake and its return
    newResult,     \* what new() has come to: "none", "session", "panic"
    readerPc,      \* the reader task: "none", "wait", "lock_event", "in_event",
                   \* "lock_close", "in_close", "ended", "panicked"
    lock,          \* who holds the callback's Mutex: "none", "caller", "reader"
    msg,           \* the message the reader task is dispatching
    received,      \* what stream_reader.next() has yielded so far, in order
    endReason,     \* why the reader loop ended: "none", "abort", "close", "error", "eof"
    transport,     \* the connection: "none", "open", "peer_closed", "failed", "ended"
    log,           \* the callback reactions invoked so far, in order
    file,          \* the bytes on_event has written to the audio file
    calls,         \* the command calls issued so far, with their results
    stream_writer, \* the text frames written to the writer half, in order
    session_finished  \* main's AtomicBool, which only on_finish stores true to

vars == << hasCallback, callerPc, todo, newResult, readerPc, lock, msg, received, endReason,
           transport, log, file, calls, stream_writer, session_finished >>

readerVars == << readerPc, msg, received, endReason, file >>

\* One entry of log.
Reaction(fn, seq, body, text) == [fn |-> fn, seq |-> seq, body |-> body, text |-> text]

\* The tasks that are inside a callback reaction.
Executing ==
    (IF callerPc = "in_open" THEN {"caller"} ELSE {})
    \cup (IF readerPc \in {"in_event", "in_close"} THEN {"reader"} ELSE {})

\* callback.lock().await resolves for a task once nobody holds the Mutex.
CanLock == lock = "none"

\* The Mutex after task t has taken the guard.
Acquire(t) == t

\* A guard that outlives the statement of the invocation: the Mutex stays taken.
Release_GuardKept == lock

\* The Mutex after the guard is dropped at the end of the statement.
Release == "none"

Init ==
    /\ hasCallback \in BOOLEAN
    /\ callerPc = "connect"
    /\ todo = << >>
    /\ newResult = "none"
    /\ readerPc = "none"
    /\ lock = "none"
    /\ msg = [kind |-> "none", body |-> NoBody]
    /\ received = << >>
    /\ endReason = "none"
    /\ transport = "none"
    /\ log = << >>
    /\ file = << >>
    /\ calls = << >>
    /\ stream_writer = << >>
    /\ session_finished = FALSE

------------------------------------------------------------------------------
(* QwenTtsRealtime::new.                                                     *)

\* What building the request and connect_async can come to.
ConnectOutcomes == {"ok", "malformed_url", "network_error", "handshake_rejected"}

\* What new() gives its caller for an outcome of the connection: the session,
\* or a panic of the unwrap or expect that meets the error.
NewResult(outcome) == IF outcome = "ok" THEN "session" ELSE "panic"

\* new() with the reader task spawned before on_open is called.
NewOrder_SpawnFirst == << "spawn", "on_open" >>

\* The steps new() runs for a callback after the handshake, in order.
NewOrder == << "on_open", "spawn" >>

\* Lines 65-101: the request is built, the handshake made and the stream split.
Connect ==
    /\ callerPc = "connect"
    /\ \E outcome \in ConnectOutcomes :
         IF NewResult(outcome) = "session"
         THEN /\ callerPc' = "setup"
              /\ todo' = IF hasCallback THEN NewOrder ELSE << >>
              /\ transport' = "open"
              /\ UNCHANGED newResult
         ELSE /\ callerPc' = "failed"
              /\ newResult' = NewResult(outcome)
              /\ UNCHANGED << todo, transport >>
    /\ UNCHANGED << hasCallback, session_finished, readerVars, lock, log, calls, stream_writer >>

\* Line 104: callback.lock().await.as_ref().on_open() is entered.
OnOpenCall ==
    /\ callerPc = "setup"
    /\ todo # << >> /\ Head(todo) = "on_open"
    /\ CanLock
    /\ lock' = Acquire("caller")
    /\ callerPc' = "in_open"
    /\ log' = Append(log, Reaction("on_open", 0, NoBody, ""))
    /\ UNCHANGED << hasCallback, session_finished, todo, newResult, readerVars, transport, calls,
                    stream_writer >>

\* Line 104: on_open returns and the guard is dropped.
OnOpenReturn ==
    /\ callerPc = "in_open"
    /\ lock' = Release
    /\ callerPc' = "setup"
    /\ todo' = Tail(todo)
    /\ UNCHANGED << hasCallback, session_finished, newResult, readerVars, transport, log, calls,
                    stream_writer >>

\* Line 105: tokio::spawn of the reader task.
Spawn ==
    /\ callerPc = "setup"
    /\ todo # << >> /\ Head(todo) = "spawn"
    /\ readerPc' = "wait"
    /\ todo' = Tail(todo)
    /\ UNCHANGED << hasCallback, session_finished, callerPc, newResult, lock, msg, received, endReason,
                    file, transport, log, calls, stream_writer >>

\* Line 141: new() returns the session.
NewReturn ==
    /\ callerPc = "setup"
    /\ todo = << >>
    /\ callerPc' = "ready"
    /\ newResult' = "session"
    /\ UNCHANGED << hasCallback, session_finished, todo, readerVars, lock, transport, log, calls,
                    stream_writer >>

------------------------------------------------------------------------------
(* The reader task, lines 105-139.                                           *)

callerVars == << callerPc, todo, newResult, calls, stream_writer >>

\* A loop that hands on_event only the text frames whose type it knows and
\* drops the others.
AfterNext_KnownOnly(f) ==
    CASE f.kind = "text"  -> IF f.body.valid /\ f.body.type \in KnownTypes
                             THEN "lock_event" ELSE "wait"
      [] f.kind = "close" -> "lock_close"
      [] f.kind = "error" -> "ended"
      [] f.kind = "none"  -> "ended"
      [] OTHER            -> "wait"

\* A loop that breaks on a frame that is neither text nor close.
AfterNext_OtherEnds(f) ==
    CASE f.kind = "text"  -> "lock_event"
      [] f.kind = "close" -> "lock_close"
      [] OTHER            -> "ended"

\* A loop that invokes on_close for every end of the inbound stream.
AfterNext_CloseOnEnd(f) ==
    CASE f.kind = "text"  -> "lock_event"
      [] f.kind = "close" -> "lock_close"
      [] f.kind = "error" -> "lock_close"
      [] f.kind = "none"  -> "lock_close"
      [] OTHER            -> "wait"

\* Where the loop goes after stream_reader.next() has yielded f (lines 107-136).
AfterNext(f) ==
    CASE f.kind = "text"  -> "lock_event"
      [] f.kind = "close" -> "lock_close"
      [] f.kind = "error" -> "ended"
      [] f.kind = "none"  -> "ended"
      [] OTHER            -> "wait"

\* A loop that dispatches the same message again instead of reading the next.
AfterEvent_Redispatch(ret) ==
    CASE ret = "true"  -> "ended"
      [] ret = "panic" -> "panicked"
      [] OTHER         -> "lock_event"

\* Where the loop goes after on_event has returned ret (lines 112-119): a panic
\* of the callback unwinds the task.
AfterEvent(ret) ==
    CASE ret = "true"  -> "ended"
      [] ret = "panic" -> "panicked"
      [] OTHER         -> "wait"

\* The text handed to on_event for message m (line 116).
ToText(m) == m.body

\* The connection after the reader half has yielded f: a close frame, a read
\* error and the end of the stream leave it unusable.
TransportAfter(f) ==
    CASE f.kind = "close" -> "peer_closed"
      [] f.kind = "error" -> "failed"
      [] f.kind = "none"  -> "ended"
      [] OTHER            -> transport

\* Line 107: stream_reader.next().await yields its next result.
ReaderNext ==
    /\ readerPc = "wait"
    /\ Len(received) < MaxFrames
    /\ \E f \in Frames :
         /\ received' = Append(received, f)
         /\ msg' = f
         /\ readerPc' = AfterNext(f)
         /\ transport' = TransportAfter(f)
         /\ endReason' = CASE f.kind = "error" -> "error"
                           [] f.kind = "none"  -> "eof"
                           [] OTHER            -> endReason
    /\ UNCHANGED << hasCallback, session_finished, callerVars, lock, log, file >>

\* Lines 112-116: the lock is taken and on_event is entered with the message.
OnEventCall ==
    /\ readerPc = "lock_event"
    /\ CanLock
    /\ lock' = Acquire("reader")
    /\ readerPc' = "in_event"
    /\ log' = Append(log, Reaction("on_event", Len(received), ToText(msg), ""))
    /\ UNCHANGED << hasCallback, session_finished, callerVars, msg, received, endReason, transport, file >>

\* Lines 116-119: on_event returns (or panics), the guard is dropped, and the
\* loop breaks when need_aborted.
OnEventReturn ==
    /\ readerPc = "in_event"
    /\ LET r == OnEvent(ToText(msg))
       IN  /\ file' = file \o r.write
           /\ readerPc' = AfterEvent(r.ret)
           /\ endReason' = IF r.ret = "true" THEN "abort" ELSE endReason
    /\ lock' = Release
    /\ UNCHANGED << hasCallback, session_finished, callerVars, msg, received, transport, log >>

\* Lines 122-126: the lock is taken and on_close is entered.
OnCloseCall ==
    /\ readerPc = "lock_close"
    /\ CanLock
    /\ lock' = Acquire("reader")
    /\ readerPc' = "in_close"
    /\ log' = Append(log, Reaction("on_close", Len(received), NoBody,
                                   "Connection closed by server"))
    /\ UNCHANGED << hasCallback, session_finished, callerVars, msg, received, endReason, transport, file >>

\* Lines 126-127: on_close returns, the guard is dropped, the loop breaks.
OnCloseReturn ==
    /\ readerPc = "in_close"
    /\ lock' = Release
    /\ readerPc' = "ended"
    /\ endReason' = "close"
    /\ UNCHANGED << hasCallback, session_finished, callerVars, msg, received, transport, log, file >>

------------------------------------------------------------------------------
(* The commands, lines 144-194.                                              *)

\* AudioFormat::PCM_24000HZ_MONO_16BIT.
PCM_24000HZ_MONO_16BIT ==
    [format |-> "pcm", sample_rate |-> 24000, channels |-> "mono",
     bit_rate |-> "16bit", format_str |-> "pcm16"]

\* The arguments the caller draws from.
Voices == {"Cherry"}
Modes == {"server_commit"}
Formats == {PCM_24000HZ_MONO_16BIT}
Texts == {"hello", "world"}

NoSession ==
    [voice |-> NoValue, mode |-> NoValue, response_format |-> NoValue, sample_rate |-> 0]

\* An event id made once and used for every command.
GenerateEventId_Reused(n) == << "event_", 0 >>

\* _generate_event_id: "event_" and a fresh version-4 UUID, here the number of
\* the draw: two draws of Uuid::new_v4() are taken to differ.
GenerateEventId(n) == << "event_", n >>

\* A session.update that carries the format_str of the audio format.
SessionUpdate_FormatStr(id, voice, response_format, mode) ==
    [event_id |-> id, type |-> "session.update", text |-> NoValue,
     session |-> [voice |-> voice, mode |-> mode,
                  response_format |-> response_format.format_str,
                  sample_rate |-> response_format.sample_rate]]

\* The JSON documents the three commands build.
SessionUpdate(id, voice, response_format, mode) ==
    [event_id |-> id, type |-> "session.update", text |-> NoValue,
     session |-> [voice |-> voice, mode |-> mode,
                  response_format |-> response_format.format,
                  sample_rate |-> response_format.sample_rate]]

InputTextBufferAppend(id, text) ==
    [event_id |-> id, type |-> "input_text_buffer.append", text |-> text,
     session |-> NoSession]

SessionFinish(id) ==
    [event_id |-> id, type |-> "session.finish", text |-> NoValue,
     session |-> NoSession]

\* What stream_writer.send(..).await can come to: a write may fail at any time,
\* and fails once the connection is no longer open.
SendOutcomes == IF transport = "open" THEN {"Ok", "Err"} ELSE {"Err"}

\* A send that puts the frame before the frames already written.
Written_Front(frame, outcome) ==
    IF outcome = "Ok" THEN << frame >> \o stream_writer ELSE stream_writer

\* The writer half after a send of frame that came to outcome.
Written(frame, outcome) ==
    IF outcome = "Ok" THEN Append(stream_writer, frame) ELSE stream_writer

\* The session is over for the reader: its loop has ended by the abort signal,
\* a close frame, a read error or the end of the stream.
SessionTerminal == readerPc = "ended"

\* The arguments of a call, as the caller gave them; a command takes only some.
NoFormat ==
    [format |-> NoValue, sample_rate |-> 0, channels |-> NoValue,
     bit_rate |-> NoValue, format_str |-> NoValue]

Args(voice, response_format, mode, text) ==
    [voice |-> voice, response_format |-> response_format, mode |-> mode, text |-> text]

\* A command that drops the error of the send and reports success.
CallResult_Swallowed(outcome) == "Ok"

\* A command that unwraps the result of the send: a failed send panics.
CallResult_Unwrapped(outcome) == IF outcome = "Err" THEN "panic" ELSE "Ok"

\* What a command returns for the outcome of its send: `?` hands the error to
\* the caller, and Ok(()) follows a send that succeeded.
CallResult(outcome) == outcome

\* stream_writer.send(Message::text(msg.to_string())).await? for the frame of
\* command op called with args: one send, whose outcome decides the result of
\* the call.
Send(op, args, frame) ==
    \E outcome \in SendOutcomes :
        /\ stream_writer' = Written(frame, outcome)
        /\ calls' = Append(calls, [op |-> op, args |-> args, frame |-> frame,
                                   sent |-> outcome, result |-> CallResult(outcome)])

\* Lines 149-171.
update_session ==
    /\ callerPc = "ready"
    /\ Len(calls) < MaxCalls
    /\ \E voice \in Voices, response_format \in Formats, mode \in Modes :
          Send("update_session",
               Args(voice, response_format, mode, NoValue),
               SessionUpdate(GenerateEventId(Len(calls) + 1), voice, response_format, mode))
    /\ UNCHANGED << hasCallback, session_finished, callerPc, todo, newResult, readerVars, lock,
                    transport, log >>

\* Lines 173-183.
append_text ==
    /\ callerPc = "ready"
    /\ Len(calls) < MaxCalls
    /\ \E text \in Texts :
          Send("append_text",
               Args(NoValue, NoFormat, NoValue, text),
               InputTextBufferAppend(GenerateEventId(Len(calls) + 1), text))
    /\ UNCHANGED << hasCallback, session_finished, callerPc, todo, newResult, readerVars, lock,
                    transport, log >>

\* Lines 185-194.
finish ==
    /\ callerPc = "ready"
    /\ Len(calls) < MaxCalls
    /\ Send("finish",
            Args(NoValue, NoFormat, NoValue, NoValue),
            SessionFinish(GenerateEventId(Len(calls) + 1)))
    /\ UNCHANGED << hasCallback, session_finished, callerPc, todo, newResult, readerVars, lock,
                    transport, log >>

------------------------------------------------------------------------------
(* The completion wait of main, src/main.rs lines 114-124.                   *)

\* main has called finish() as its last command (line 113).
AfterFinish == calls # << >> /\ calls[Len(calls)].op = "finish"

\* Where main goes after one load of session_finished (lines 117-120).
AfterPoll(flag) == IF flag THEN "exited" ELSE "polling"

\* Lines 114-124: one round of the loop: the sleep of 100 ms elapses and the
\* flag is loaded; main breaks when it is set and sleeps again when it is not.
\* main gives its session a callback and issues no command after finish().
Poll ==
    /\ hasCallback
    /\ \/ callerPc = "ready" /\ AfterFinish
       \/ callerPc = "polling"
    /\ callerPc' = AfterPoll(session_finished)
    /\ UNCHANGED << hasCallback, session_finished, todo, newResult, readerVars, lock,
                    transport, log, calls, stream_writer >>

------------------------------------------------------------------------------

Next ==
    \/ Connect
    \/ OnOpenCall
    \/ OnOpenReturn
    \/ Spawn
    \/ NewReturn
    \/ ReaderNext
    \/ OnEventCall
    \/ OnEventReturn
    \/ OnCloseCall
    \/ OnCloseReturn
    \/ update_session
    \/ append_text
    \/ finish
    \/ Poll

Spec == Init /\ [][Next]_vars

\* The tokio runtime polls a task that can run: a reader task that has a
\* message takes the lock when it is free and returns from the callback, the
\* caller's new() runs on, and the sleep of main elapses.  What the server sends
\* and which commands the caller issues are under no such obligation.
Fairness ==
    /\ WF_vars(OnOpenCall) /\ WF_vars(OnOpenReturn) /\ WF_vars(Spawn) /\ WF_vars(NewReturn)
    /\ WF_vars(OnEventCall) /\ WF_vars(OnEventReturn)
    /\ WF_vars(OnCloseCall) /\ WF_vars(OnCloseReturn)
    /\ WF_vars(Poll)

FairSpec == Spec /\ Fairness

------------------------------------------------------------------------------
(* Properties.                                                               *)

\* The places of log that hold a reaction fn.
Places(fn) == { i \in DOMAIN log : log[i].fn = fn }

\* Place i is the last place of log.
LastPlace(i) == i = Len(log)

\* C1: once the dispatch loop of a session with a callback has ended, by any
\* path, the finished reaction has been invoked exactly once and it is the last
\* reaction invoked.
C1_FinishedOnceAndLast ==
    (hasCallback /\ readerPc = "ended") =>
        /\ Cardinality(Places("on_finish")) = 1
        /\ \A i \in Places("on_finish") : LastPlace(i)

\* C2: on_open is invoked at most once, exactly once in a session returned for
\* a callback, only after the handshake has succeeded, and before every
\* on_event and on_close: it is the first reaction of the log, and the reader
\* task has read nothing and is inside no reaction until on_open has returned.
C2_OnOpenOnceAndFirst ==
    /\ Cardinality(Places("on_open")) <= 1
    /\ (hasCallback /\ newResult = "session") => Cardinality(Places("on_open")) = 1
    /\ log # << >> => (log[1].fn = "on_open" /\ transport # "none")
    /\ (received # << >> \/ readerPc \in {"in_event", "in_close"}) =>
           (Places("on_open") # {} /\ callerPc # "in_open")

\* C2's case: on_open has been invoked and an on_event after it.
C2_Witness ==
    /\ Len(log) >= 2
    /\ log[1].fn = "on_open"
    /\ log[2].fn = "on_event"

\* C3: at most one task is inside a callback reaction, the task that is inside
\* one holds the callback's lock, and the lock is free when no task is inside a
\* reaction.
C3_ExclusiveCallback ==
    /\ Cardinality(Executing) <= 1
    /\ \A t \in Executing : lock = t
    /\ lock # "none" => lock \in Executing

\* C3's case: the reader task is inside on_event, after the caller has been
\* inside on_open.
C3_Witness ==
    /\ readerPc = "in_event"
    /\ lock = "reader"
    /\ Places("on_open") # {}

\* The frames of the successful calls of cs, in the order of the calls.
RECURSIVE OkFrames(_)
OkFrames(cs) ==
    IF cs = << >> THEN << >>
    ELSE IF Head(cs).result = "Ok"
         THEN << Head(cs).frame >> \o OkFrames(Tail(cs))
         ELSE OkFrames(Tail(cs))

\* C4: the frames written to the transport are the frames of the successful
\* calls, one frame for each, in the order the calls were issued.
C4_FramesInCallOrder == stream_writer = OkFrames(calls)

\* C4's case: an append_text and then a finish have succeeded.
C4_Witness ==
    /\ Len(stream_writer) = 2
    /\ stream_writer[1].type = "input_text_buffer.append"
    /\ stream_writer[2].type = "session.finish"

\* The places of received that hold a text frame.
TextPlaces == { i \in DOMAIN received : received[i].kind = "text" }

\* C5: the on_event invocations carry the text frames in the order received:
\* each invocation carries the text frame of its place in received, the places
\* strictly increase along the log, and every text frame received before an
\* invoked one has been invoked too.
C5_EventsInReceiveOrder ==
    /\ \A i \in Places("on_event") :
          /\ log[i].seq \in TextPlaces
          /\ log[i].body = received[log[i].seq].body
    /\ \A i, j \in Places("on_event") : i < j => log[i].seq < log[j].seq
    /\ \A i \in Places("on_event") :
          \A k \in TextPlaces :
              k < log[i].seq => \E j \in Places("on_event") : log[j].seq = k

\* C5's case: the audio deltas "AAA=" and "BBB=" were received in that order
\* and on_event has been invoked with each.
C5_Witness ==
    /\ Len(log) = 3
    /\ log[2].fn = "on_event" /\ log[2].body.delta = << "A", "A", "A", "=" >>
    /\ log[3].fn = "on_event" /\ log[3].body.delta = << "B", "B", "B", "=" >>

\* A text payload that is not valid JSON or has no type discriminator.
Malformed(body) == ~body.valid \/ body.type = NoValue

\* C6: a malformed text frame neither ends the dispatch loop nor crashes the
\* reader task: while it is dispatched and after it, the reader task is in its
\* loop, so that the frames after it are read and dispatched.
C6_MalformedFrameSkipped ==
    (msg.kind = "text" /\ Malformed(msg.body)) =>
        readerPc \in {"lock_event", "in_event", "wait"}

\* C7: when on_event has returned true for session.finished the loop has
\* stopped, and the last reaction is on_finish with the reason
\* "session.finished", which is the reason of no other stop.
C7_AbortFinishedReason ==
    (readerPc = "ended" /\ endReason = "abort") =>
        \E i \in Places("on_finish") :
              /\ i > 1
              /\ LastPlace(i)
              /\ log[i].text = "session.finished"
              /\ log[i - 1].fn = "on_event"
              /\ log[i - 1].body.type = "session.finished"

\* C8: when the loop has stopped on a close frame, the log ends with on_close
\* and then on_finish with the reason "connection closed by server", and so
\* with no on_event after the close frame.
C8_CloseThenFinished ==
    (readerPc = "ended" /\ endReason = "close") =>
        /\ Len(log) >= 2
        /\ log[Len(log) - 1].fn = "on_close"
        /\ log[Len(log)].fn = "on_finish"
        /\ log[Len(log)].text = "connection closed by server"

\* C9: a command called once the session is terminal is rejected and writes no
\* frame to the transport.
C9_RejectedWhenTerminal ==
    [][ (SessionTerminal /\ calls' # calls) =>
            /\ calls'[Len(calls')].result # "Ok"
            /\ stream_writer' = stream_writer ]_vars

\* C10: when the connection cannot be established, new() returns a connection
\* error to its caller, no session exists, no reader task has been spawned and
\* no reaction of the callback has been invoked.
C10_ConnectErrorReturned ==
    callerPc = "failed" =>
        /\ newResult = "connection_error"
        /\ readerPc = "none"
        /\ transport = "none"
        /\ log = << >>

\* The reader task is in its loop: reading, or dispatching what it has read.
ReaderRunning ==
    readerPc \in {"wait", "lock_event", "in_event", "lock_close", "in_close"}

\* C11: a command whose send fails returns the error to its caller and writes
\* no frame, and the step of the call tears nothing down: the reader task is
\* where it was, the connection is as it was, and no reaction is invoked.
C11_FailedWriteTearsNothingDown ==
    [][ (calls' # calls /\ calls'[Len(calls')].sent = "Err") =>
            /\ calls'[Len(calls')].result = "Err"
            /\ stream_writer' = stream_writer
            /\ readerPc' = readerPc
            /\ transport' = transport
            /\ lock' = lock
            /\ log' = log ]_vars

\* C11's case: a send has failed on an open connection and the reader task is
\* in its loop, waiting for the next frame.
C11_Witness ==
    /\ \E i \in DOMAIN calls : calls[i].sent = "Err"
    /\ transport = "open"
    /\ readerPc = "wait"

\* C12: the command frames written in a session carry pairwise different event
\* ids.
C12_EventIdsDistinct ==
    \A i, j \in DOMAIN stream_writer :
        i # j => stream_writer[i].event_id # stream_writer[j].event_id

\* C12's case: two frames of the same command with the same payload have been
\* written.
C12_Witness ==
    /\ Len(stream_writer) = 2
    /\ stream_writer[1].type = "session.finish"
    /\ stream_writer[2].type = "session.finish"

\* C13: a finish called after a finish returns to its caller with an error
\* value, having written nothing, or with Ok, having written one more
\* session.finish frame; it does not panic, and the reader task is where it was.
C13_SecondFinishHarmless ==
    [][ ( /\ calls' # calls
          /\ calls'[Len(calls')].op = "finish"
          /\ \E i \in DOMAIN calls : calls[i].op = "finish" ) =>
            /\ callerPc' = "ready"
            /\ readerPc' = readerPc
            /\ \/ /\ calls'[Len(calls')].result = "Err"
                  /\ stream_writer' = stream_writer
               \/ /\ calls'[Len(calls')].result = "Ok"
                  /\ Len(stream_writer') = Len(stream_writer) + 1
                  /\ SubSeq(stream_writer', 1, Len(stream_writer)) = stream_writer
                  /\ stream_writer'[Len(stream_writer')].type = "session.finish" ]_vars

\* C13's case: finish has been called twice, the second time with success,
\* while the reader task is in its loop.
C13_Witness ==
    /\ Len(calls) = 2
    /\ calls[1].op = "finish"
    /\ calls[2].op = "finish"
    /\ calls[2].result = "Ok"
    /\ ReaderRunning

\* Call i is an append_text issued before any update_session.
AppendBeforeConfigure(i) ==
    /\ calls[i].op = "append_text"
    /\ \A k \in 1..(i - 1) : calls[k].op # "update_session"

\* The frame of call i is written at a place before the frame of call j.
WrittenBefore(i, j) ==
    \E p, q \in DOMAIN stream_writer :
        /\ p < q
        /\ stream_writer[p] = calls[i].frame
        /\ stream_writer[q] = calls[j].frame

\* C14: an append_text issued before any update_session is rejected with an
\* error and writes nothing, or is accepted, and then its frame is written
\* before the frame of every later successful command, and the frames of the
\* later successful commands are written in the order of their calls.
C14_AppendBeforeConfigureKeepsOrder ==
    \A i \in DOMAIN calls :
        AppendBeforeConfigure(i) =>
            \/ /\ calls[i].result = "Err"
               /\ \A p \in DOMAIN stream_writer : stream_writer[p] # calls[i].frame
            \/ /\ calls[i].result = "Ok"
               /\ \E p \in DOMAIN stream_writer : stream_writer[p] = calls[i].frame
               /\ \A j, k \in DOMAIN calls :
                     (i <= j /\ j < k /\ calls[j].result = "Ok" /\ calls[k].result = "Ok")
                         => WrittenBefore(j, k)

\* C14's case: an append_text was accepted before any update_session, and the
\* update_session after it was accepted too.
C14_Witness ==
    /\ Len(calls) = 2
    /\ AppendBeforeConfigure(1)
    /\ calls[2].op = "update_session"
    /\ Len(stream_writer) = 2

\* The writers and the reader tasks of the session: the session returned by
\* new() owns the writer half, and the reader task exists while it is in its loop.
Writers == IF newResult = "session" THEN 1 ELSE 0
ReaderTasks == IF ReaderRunning THEN 1 ELSE 0

\* The session new() has returned is live: the handshake has succeeded and no
\* close frame, read error, end of the stream or abort has ended it.
SessionLive == newResult = "session" /\ transport = "open" /\ ~SessionTerminal

\* C15: a live session has exactly one writer and exactly one reader task,
\* whether it was created with a callback or without.
C15_OneWriterOneReader ==
    SessionLive => (Writers = 1 /\ ReaderTasks = 1)

\* finish has been called and has returned.
FinishCalled == \E i \in DOMAIN calls : calls[i].op = "finish"

\* The ends of the loop that come from the server or the connection: the abort
\* on session.finished, a close frame, and a failed read, which the reader half
\* reports as an error or, for a connection already closed, as the end of the
\* stream.
ServerEnds == {"abort", "close", "error", "eof"}

\* C16: a call of finish leaves the reader task where it is, and after finish
\* has returned a reader task that is in its loop stays in its loop, delivering
\* the text frames it reads, until the loop stops on session.finished, a close
\* frame or a read error.
C16_FinishDoesNotEndSession ==
    [][ /\ (calls' # calls /\ calls'[Len(calls')].op = "finish") =>
               (readerPc' = readerPc /\ endReason' = endReason /\ log' = log)
        /\ (FinishCalled /\ ReaderRunning) =>
               \/ ReaderRunning'
               \/ readerPc' = "ended" /\ endReason' \in ServerEnds ]_vars

\* A call of finish changes nothing of the reader task and invokes no reaction.
FinishLeavesReader ==
    [][ (calls' # calls /\ calls'[Len(calls')].op = "finish") =>
            (readerPc' = readerPc /\ endReason' = endReason /\ log' = log) ]_vars

\* The on_event invocations made for the frame at place k of received.
EventsFor(k) == { i \in DOMAIN log : log[i].fn = "on_event" /\ log[i].seq = k }

\* The reader task is about to invoke on_event for the frame at place k.
Pending(k) == k = Len(received) /\ readerPc = "lock_event"

\* C17: every text frame the loop has read has exactly one on_event invocation,
\* made with that frame's text, whatever its type (none yet for the frame the
\* loop is about to dispatch); and after a frame whose type on_event has no
\* branch for, the loop goes on.
C17_EveryTextFrameDeliveredOnce ==
    \A k \in DOMAIN received :
        received[k].kind = "text" =>
            /\ Cardinality(EventsFor(k)) = (IF Pending(k) THEN 0 ELSE 1)
            /\ \A i \in EventsFor(k) : log[i].body = received[k].body
            /\ (received[k].body.valid /\ received[k].body.type \notin KnownTypes
                    /\ k = Len(received))
                   => readerPc \in {"lock_event", "in_event", "wait"}

\* A frame of type "error" was delivered, and the frame after it as well.
C17_Witness ==
    /\ Len(received) = 2
    /\ received[1].kind = "text" /\ received[1].body.type = "error"
    /\ received[2].kind = "text"
    /\ EventsFor(1) # {} /\ EventsFor(2) # {}

\* The last frame the loop has read.
LastReceived(r) == r[Len(r)]

\* C18: a step in which the loop reads a frame that is neither text nor close
\* invokes nothing and changes nothing but the loop's own position, which is
\* back at the read; and the text frame read after such a frame is dispatched
\* like any other.
C18_OtherFrameIgnored ==
    [][ received' # received =>
          /\ LastReceived(received').kind = "binary" =>
                /\ readerPc' = "wait"
                /\ UNCHANGED << log, lock, file, endReason, transport, callerVars >>
          /\ ( /\ received # << >>
               /\ LastReceived(received).kind = "binary"
               /\ LastReceived(received').kind = "text" ) =>
                /\ readerPc' = "lock_event"
                /\ msg' = LastReceived(received') ]_vars

\* A text frame that came after a binary frame was handed to on_event.
C18_Witness ==
    /\ Len(received) = 2
    /\ received[1].kind = "binary"
    /\ received[2].kind = "text"
    /\ log = << Reaction("on_open", 0, NoBody, ""),
                Reaction("on_event", 2, received[2].body, "") >>

\* C19: the callback's Mutex is held only by a task that is inside one callback
\* invocation, so a task waiting for it has a holder that can return; and a
\* command of a caller that holds a session can run whoever holds the Mutex.
C19_NoDeadlock ==
    /\ lock = "reader" => readerPc \in {"in_event", "in_close"}
    /\ lock = "caller" => callerPc = "in_open"
    /\ lock # "none" => Executing = {lock}
    /\ (readerPc \in {"lock_event", "lock_close"} /\ ~CanLock) =>
           ENABLED (OnOpenReturn \/ OnEventReturn \/ OnCloseReturn)
    /\ (callerPc = "ready" /\ Len(calls) < MaxCalls) =>
           ENABLED update_session /\ ENABLED append_text /\ ENABLED finish

\* The reader task is inside on_event, holding the Mutex, and the caller has
\* issued a command and can issue another.
C19_Witness ==
    /\ lock = "reader"
    /\ readerPc = "in_event"
    /\ callerPc = "ready"
    /\ Len(calls) = 1
    /\ calls[1].result = "Ok"

\* The places of stream_writer that hold the frame of call i.
FramesOfCall(i) == { j \in DOMAIN stream_writer : stream_writer[j] = calls[i].frame }

\* C20: a call that returned Ok wrote exactly one frame; the frame has an
\* event_id and the type of its command; session.update holds the voice, the
\* mode, the format and the sample rate given, input_text_buffer.append the text
\* given, and session.finish nothing more.
C20_OneFramePerCommand ==
    \A i \in DOMAIN calls :
        calls[i].result = "Ok" =>
            LET f == calls[i].frame
                a == calls[i].args
            IN  /\ Cardinality(FramesOfCall(i)) = 1
                /\ f.event_id[1] = "event_"
                /\ calls[i].op = "update_session" =>
                      /\ f.type = "session.update"
                      /\ f.session = [voice |-> a.voice, mode |-> a.mode,
                                      response_format |-> a.response_format.format,
                                      sample_rate |-> a.response_format.sample_rate]
                      /\ f.text = NoValue
                /\ calls[i].op = "append_text" =>
                      /\ f.type = "input_text_buffer.append"
                      /\ f.text = a.text
                      /\ f.session = NoSession
                /\ calls[i].op = "finish" =>
                      /\ f.type = "session.finish"
                      /\ f.text = NoValue
                      /\ f.session = NoSession

\* A session.update and then an append of "world" were written.
C20_Witness ==
    /\ Len(stream_writer) = 2
    /\ stream_writer[1].type = "session.update"
    /\ stream_writer[1].session.response_format = "pcm"
    /\ stream_writer[2].type = "input_text_buffer.append"
    /\ stream_writer[2].text = "world"

\* The dispatch loop is over: it has broken out, the stream has ended, or a
\* panic of on_event has unwound the task.
LoopOver == readerPc \in {"ended", "panicked"}

\* C21: whenever main is in its completion wait and the dispatch loop is over,
\* main eventually leaves the wait.
C21_WaitTerminates == (callerPc = "polling" /\ LoopOver) ~> (callerPc = "exited")

\* The on_close invocations made so far.
OnCloseCalls == Places("on_close")

\* C22: on_close has been invoked at most once, each invocation is for a close
\* frame the loop has read, and a loop that ended by the return of true from
\* on_event, by a read error or by the end of the stream has invoked none.
C22_OnCloseOnlyForCloseFrame ==
    /\ Cardinality(OnCloseCalls) <= 1
    /\ \A i \in OnCloseCalls :
          /\ log[i].seq \in DOMAIN received
          /\ received[log[i].seq].kind = "close"
    /\ endReason \in {"abort", "error", "eof"} => OnCloseCalls = {}

\* on_close was invoked for a close frame that followed a delivered text frame,
\* and the loop has ended.
C22_Witness ==
    /\ readerPc = "ended" /\ endReason = "close"
    /\ Len(received) = 2
    /\ received[1].kind = "text"
    /\ OnCloseCalls # {}

====
